---- MODULE Spec2Model ----
(***************************************************************************)
(* The manifest generator generate_plugins_json.py as a state machine.     *)
(*                                                                         *)
(* Texts (a plugin file's content, a file name, the JSON written to        *)
(* plugins.json) are sequences of tokens.  A token is a string: one        *)
(* character, or a literal the code treats as a unit (a metadata key such  *)
(* as __plugin_name__, the repository base of the URLs).                   *)
(***************************************************************************)
EXTENDS Integers, Sequences, FiniteSets, TLC

\* ------------------------------------------------------------ bounds
\* Most directory entries a run enumerates.
MaxFiles == 2
\* Most consecutive invocations of the generator on the same directory.
MaxRuns == 2
MaxExtra == 1
MaxCalls == 4

\* ------------------------------------------------- module constants
PLUGIN_DIR == "plugins"
ICON_DIR == "icons"
OUTPUT_FILE == "plugins.json"
RepoBase == "https://raw.githubusercontent.com/AidenZaire/algebytestore/main/"

DQ == "\""
SQ == "'"
NL == "\n"
SP == " "
TAB == "\t"
EQ == "="
BS == "\\"
IND == "  "

\* The four fields, in the order of the all(...) guard and of the record.
RequiredFields == <<"name", "author", "version", "description">>
FieldSet == {"name", "author", "version", "description"}

\* ------------------------------------------------ metadata_pattern
\* __plugin_(name|author|version|description)__
KeyTokens ==
    {"__plugin_name__", "__plugin_author__", "__plugin_version__",
     "__plugin_description__"}

KeyOf(f) ==
    CASE f = "name" -> "__plugin_name__"
      [] f = "author" -> "__plugin_author__"
      [] f = "version" -> "__plugin_version__"
      [] f = "description" -> "__plugin_description__"

\* group 1 of the pattern
FieldOfKey(k) == CHOOSE f \in FieldSet : KeyOf(f) = k

\* \s
IsSpace(c) == c \in {SP, NL, TAB}

\* ["\']
IsQuote(c) == c \in {DQ, SQ}

\* \s* from position i: the first position that is not white space
RECURSIVE SkipSpace(_, _)
SkipSpace(s, i) ==
    IF i <= Len(s) /\ IsSpace(s[i]) THEN SkipSpace(s, i + 1) ELSE i

\* (.+?)["\'] once .+? has taken s[m-1]: the position of the closing quote,
\* the first quote of either kind at or after m with no line break before it;
\* 0 when there is none ("." does not match a line break).
RECURSIVE LazyClose(_, _)
LazyClose(s, m) ==
    IF m > Len(s) THEN 0
    ELSE IF IsQuote(s[m]) THEN m
    ELSE IF s[m] = NL THEN 0
    ELSE LazyClose(s, m + 1)

NoMatch == [found |-> FALSE, field |-> "", value |-> <<>>, end |-> 0]

\* (the pattern anchored at the start of a line)
MatchAtLineStart(s, i) ==
    LET j == SkipSpace(s, i + 1)
        k == SkipSpace(s, j + 1)
        m == LazyClose(s, k + 2)
    IN  IF /\ s[i] \in KeyTokens
           /\ i = 1 \/ s[i - 1] = NL
           /\ j <= Len(s) /\ s[j] = EQ
           /\ k <= Len(s) /\ IsQuote(s[k])
           /\ k + 1 <= Len(s) /\ s[k + 1] # NL
           /\ m # 0
        THEN [found |-> TRUE, field |-> FieldOfKey(s[i]),
              value |-> SubSeq(s, k + 1, m - 1), end |-> m]
        ELSE NoMatch

\* (the closing quote required to be of the kind q of the opening one)
RECURSIVE SameQuoteClose(_, _, _)
SameQuoteClose(s, m, q) ==
    IF m > Len(s) THEN 0
    ELSE IF s[m] = q THEN m
    ELSE IF s[m] = NL THEN 0
    ELSE SameQuoteClose(s, m + 1, q)

\* (the pattern with a back-reference to the opening quote)
MatchAtSameQuote(s, i) ==
    LET j == SkipSpace(s, i + 1)
        k == SkipSpace(s, j + 1)
        m == IF k <= Len(s) THEN SameQuoteClose(s, k + 2, s[k]) ELSE 0
    IN  IF /\ s[i] \in KeyTokens
           /\ j <= Len(s) /\ s[j] = EQ
           /\ k <= Len(s) /\ IsQuote(s[k])
           /\ k + 1 <= Len(s) /\ s[k + 1] # NL
           /\ m # 0
        THEN [found |-> TRUE, field |-> FieldOfKey(s[i]),
              value |-> SubSeq(s, k + 1, m - 1), end |-> m]
        ELSE NoMatch

\* One attempt of the pattern at position i of s.
MatchAt(s, i) ==
    LET j == SkipSpace(s, i + 1)
        k == SkipSpace(s, j + 1)
        m == LazyClose(s, k + 2)
    IN  IF /\ s[i] \in KeyTokens
           /\ j <= Len(s) /\ s[j] = EQ
           /\ k <= Len(s) /\ IsQuote(s[k])
           /\ k + 1 <= Len(s) /\ s[k + 1] # NL
           /\ m # 0
        THEN [found |-> TRUE, field |-> FieldOfKey(s[i]),
              value |-> SubSeq(s, k + 1, m - 1), end |-> m]
        ELSE NoMatch

\* re.findall(metadata_pattern, content): the non-overlapping matches, left to
\* right, each a (field, value) pair.
RECURSIVE FindAllFrom(_, _)
FindAllFrom(s, i) ==
    IF i > Len(s) THEN <<>>
    ELSE LET r == MatchAt(s, i)
         IN  IF r.found
             THEN <<[field |-> r.field, value |-> r.value]>>
                      \o FindAllFrom(s, r.end + 1)
             ELSE FindAllFrom(s, i + 1)

FindAll(s) == FindAllFrom(s, 1)

EmptyDict == [f \in {} |-> <<>>]

\* (a dict in which the first pair with a key is the one kept)
RECURSIVE DictOfFirst(_, _)
DictOfFirst(pairs, n) ==
    IF n = 0 THEN EmptyDict
    ELSE DictOfFirst(pairs, n - 1) @@ (pairs[n].field :> pairs[n].value)

\* dict(pairs): a later pair with the same key replaces an earlier one
RECURSIVE DictOf(_, _)
DictOf(pairs, n) ==
    IF n = 0 THEN EmptyDict
    ELSE (pairs[n].field :> pairs[n].value) @@ DictOf(pairs, n - 1)

\* meta_matches
MetaMatches(text) == LET pairs == FindAll(text) IN DictOf(pairs, Len(pairs))

\* all(k in meta_matches for k in ["name", "author", "version", "description"])
QualifiesAny(meta) == \E i \in 1..Len(RequiredFields) : RequiredFields[i] \in DOMAIN meta
Qualifies(meta) == \A i \in 1..Len(RequiredFields) : RequiredFields[i] \in DOMAIN meta

\* ------------------------------------------------------ file names
PyExt == <<".", "p", "y">>
PngExt == <<".", "p", "n", "g">>

\* s.endswith(suffix)
EndsWith(s, suffix) ==
    /\ Len(s) >= Len(suffix)
    /\ SubSeq(s, Len(s) - Len(suffix) + 1, Len(s)) = suffix

\* whether old occurs in s at position i
OccursAt(s, old, i) ==
    /\ i + Len(old) - 1 <= Len(s)
    /\ SubSeq(s, i, i + Len(old) - 1) = old

\* s.replace(old, new): every non-overlapping occurrence, left to right
RECURSIVE ReplaceFrom(_, _, _, _)
ReplaceFrom(s, old, new, i) ==
    IF i > Len(s) THEN <<>>
    ELSE IF OccursAt(s, old, i)
         THEN new \o ReplaceFrom(s, old, new, i + Len(old))
         ELSE <<s[i]>> \o ReplaceFrom(s, old, new, i + 1)

Replace(s, old, new) == ReplaceFrom(s, old, new, 1)

\* whether old occurs anywhere in s
Contains(s, old) == \E i \in 1..Len(s) : OccursAt(s, old, i)

\* filename.endswith(".py")
IsCandidateContains(filename) == Contains(filename, PyExt)
IsCandidate(filename) == EndsWith(filename, PyExt)

\* os.path.join(PLUGIN_DIR, filename)
PluginPath(filename) == <<PLUGIN_DIR, "/">> \o filename

\* icon_file = filename.replace(".py", ".png")
IconFile(filename) == Replace(filename, PyExt, PngExt)

\* icon_url
IconUrl(filename) == <<RepoBase, ICON_DIR, "/">> \o IconFile(filename)

\* download_url
DownloadUrl(filename) == <<RepoBase, PLUGIN_DIR, "/">> \o filename

\* the record appended for a qualifying file
RecordKeys == <<"name", "author", "version", "description", "icon_url", "download_url">>

PluginRecord(filename, meta) ==
    [name |-> meta["name"], author |-> meta["author"],
     version |-> meta["version"], description |-> meta["description"],
     icon_url |-> IconUrl(filename), download_url |-> DownloadUrl(filename)]

\* plugins_data.append(record)
AppendRecordFront(data, rec) == <<rec>> \o data
AppendRecord(data, rec) == Append(data, rec)

\* the body of one iteration after the read: plugins_data after the file
ScanFile(data, filename, text) ==
    LET meta == MetaMatches(text)
    IN  IF Qualifies(meta) THEN AppendRecord(data, PluginRecord(filename, meta))
        ELSE data

\* the for loop over the first n entries of a listing: plugins_data after them
RECURSIVE ScanAll(_, _)
ScanAll(entries, n) ==
    IF n = 0 THEN <<>>
    ELSE IF IsCandidate(entries[n].name)
         THEN ScanFile(ScanAll(entries, n - 1), entries[n].name, entries[n].text)
         ELSE ScanAll(entries, n - 1)

\* ------------------------------------------------------- json.dump
\* the escapes of a JSON string (ensure_ascii leaves these tokens as they are)
EscapeChar(c) ==
    IF c = DQ THEN <<BS, DQ>>
    ELSE IF c = BS THEN <<BS, BS>>
    ELSE IF c = TAB THEN <<BS, "t">>
    ELSE <<c>>

RECURSIVE Escape(_)
Escape(v) == IF v = <<>> THEN <<>> ELSE EscapeChar(Head(v)) \o Escape(Tail(v))

JsonString(v) == <<DQ>> \o Escape(v) \o <<DQ>>

\* the members of one object from key i on, at indent level 2
RECURSIVE DumpMembers(_, _)
DumpMembers(rec, i) ==
    LET key == RecordKeys[i]
        line == <<IND, IND>> \o JsonString(<<key>>) \o <<":", SP>> \o JsonString(rec[key])
    IN  IF i = Len(RecordKeys) THEN line \o <<NL>>
        ELSE line \o <<",", NL>> \o DumpMembers(rec, i + 1)

DumpRecord(rec) == <<IND, "{", NL>> \o DumpMembers(rec, 1) \o <<IND, "}">>

RECURSIVE DumpItems(_, _)
DumpItems(data, i) ==
    IF i = Len(data) THEN DumpRecord(data[i])
    ELSE DumpRecord(data[i]) \o <<",", NL>> \o DumpItems(data, i + 1)

\* json.dump(plugins_data, f, indent=2): the text written
DumpNothingWhenEmpty(data) ==
    IF data = <<>> THEN <<>>
    ELSE <<"[", NL>> \o DumpItems(data, 1) \o <<NL, "]">>

Dump(data) ==
    IF data = <<>> THEN <<"[", "]">>
    ELSE <<"[", NL>> \o DumpItems(data, 1) \o <<NL, "]">>

\* the text on disk when the write fails after n whole records
DumpPrefix(data, n) ==
    IF n = 0 THEN <<>> ELSE <<"[", NL>> \o DumpItems(SubSeq(data, 1, n), 1)

\* len(plugins_data) of the summary line
SummaryCountOff(data) == Len(data) + 1
SummaryCount(data) == Len(data)

\* the summary line printed at the end
SummaryLine(data) == [file |-> OUTPUT_FILE, count |-> SummaryCount(data)]

\* ------------------------------------------------------- json.load
\* (how a reader of plugins.json parses it back)
IsJsonSpace(c) == c \in {SP, NL, TAB, IND}

RECURSIVE SkipJsonSpace(_, _)
SkipJsonSpace(t, i) ==
    IF i <= Len(t) /\ IsJsonSpace(t[i]) THEN SkipJsonSpace(t, i + 1) ELSE i

UnescapeChar(c) == IF c = "t" THEN TAB ELSE c

\* the characters of a string from position i (after the opening quote)
RECURSIVE ParseChars(_, _)
ParseChars(t, i) ==
    IF t[i] = DQ THEN [val |-> <<>>, next |-> i + 1]
    ELSE IF t[i] = BS
         THEN LET r == ParseChars(t, i + 2)
              IN  [val |-> <<UnescapeChar(t[i + 1])>> \o r.val, next |-> r.next]
         ELSE LET r == ParseChars(t, i + 1)
              IN  [val |-> <<t[i]>> \o r.val, next |-> r.next]

ParseString(t, i) == ParseChars(t, i + 1)

\* the members of an object from the key at position i
RECURSIVE ParseMembers(_, _)
ParseMembers(t, i) ==
    LET k == ParseString(t, i)
        c == SkipJsonSpace(t, k.next)
        v == ParseString(t, SkipJsonSpace(t, c + 1))
        e == SkipJsonSpace(t, v.next)
    IN  IF t[e] = ","
        THEN LET r == ParseMembers(t, SkipJsonSpace(t, e + 1))
             IN  [obj |-> r.obj @@ (k.val[1] :> v.val), next |-> r.next]
        ELSE [obj |-> (k.val[1] :> v.val), next |-> e + 1]

\* the elements of an array from the "{" at position i
RECURSIVE ParseElements(_, _)
ParseElements(t, i) ==
    LET o == ParseMembers(t, SkipJsonSpace(t, i + 1))
        e == SkipJsonSpace(t, o.next)
    IN  IF t[e] = ","
        THEN <<o.obj>> \o ParseElements(t, SkipJsonSpace(t, e + 1))
        ELSE <<o.obj>>

ParseJson(t) ==
    LET i == SkipJsonSpace(t, 1)
        j == SkipJsonSpace(t, i + 1)
    IN  IF t[j] = "]" THEN <<>> ELSE ParseElements(t, j)

\* ---------------------------------------------------------- inputs
\* one metadata line: __plugin_<field>__ = <quote><value><quote>
AssignLine(f, q, v) == <<KeyOf(f), SP, EQ, SP, q>> \o v \o <<q, NL>>

SampleValue(f) ==
    CASE f = "name" -> <<"M", "C">>
      [] f = "author" -> <<"A", "y">>
      [] f = "version" -> <<"1", ".", "1">>
      [] f = "description" -> <<"C", "v">>

\* the metadata lines of the fields from i on, those of skip left out
RECURSIVE SampleLines(_, _, _)
SampleLines(i, skip, q) ==
    IF i > Len(RequiredFields) THEN <<>>
    ELSE (IF RequiredFields[i] \in skip THEN <<>>
          ELSE AssignLine(RequiredFields[i], q, SampleValue(RequiredFields[i])))
         \o SampleLines(i + 1, skip, q)

\* a plugin file with all four assignments
FullText == <<"i", NL>> \o SampleLines(1, {}, DQ) \o <<"c", NL>>

\* a plugin file in which field f has no assignment
MissingText(f) == SampleLines(1, {f}, SQ) \o <<"c", NL>>

\* a plugin file whose double-quoted name holds an apostrophe: "M'C"
ApostropheText ==
    AssignLine("name", DQ, <<"M", SQ, "C">>) \o SampleLines(2, {}, DQ)

PluginTexts == {FullText, ApostropheText} \cup {MissingText(f) : f \in FieldSet}

FileNames ==
    {<<"a", ".", "p", "y">>, <<"b", ".", "p", "y">>,
     <<"c", ".", "p", "y", "x", ".", "p", "y">>, <<"d", ".", "p", "y", "c">>}

DirEntries == [name : FileNames, text : PluginTexts]

\* what os.listdir can return: entries with distinct names, in any order
Listings ==
    {l \in UNION {[1..n -> DirEntries] : n \in 0..MaxFiles} :
        \A i, j \in 1..Len(l) : i # j => l[i].name # l[j].name}

\* The ways a line can hold the pattern of field f: a top-level assignment, a
\* comment, a string literal assigned to another name, a single-quoted
\* assignment, a value holding a quote of the other kind, an empty value.
BaseForms == {"plain", "comment", "string", "none"}
ExtraForms == {"single", "apostrophe", "dquote", "empty"}

FormLine(f, form) ==
    CASE form = "plain" -> AssignLine(f, DQ, SampleValue(f))
      [] form = "comment" ->
            <<"#", SP>> \o AssignLine(f, DQ, <<"k">> \o SampleValue(f))
      [] form = "string" ->
            <<"s", SP, EQ, SP, SQ, KeyOf(f), SP, EQ, SP, DQ, "t">>
                \o SampleValue(f) \o <<DQ, SQ, NL>>
      [] form = "single" -> AssignLine(f, SQ, <<"x">> \o SampleValue(f))
      [] form = "apostrophe" -> AssignLine(f, DQ, <<"M", SQ, "C">>)
      [] form = "dquote" -> AssignLine(f, SQ, <<"M", DQ, "C">>)
      [] form = "empty" -> AssignLine(f, DQ, <<>>)
      [] OTHER -> <<>>

\* one line per field from i on, each in the form chosen for its field
RECURSIVE BaseLines(_, _)
BaseLines(choice, i) ==
    IF i > Len(RequiredFields) THEN <<>>
    ELSE FormLine(RequiredFields[i], choice[RequiredFields[i]])
             \o BaseLines(choice, i + 1)

ExtraLines == {FormLine(f, form) : f \in FieldSet, form \in ExtraForms}

\* up to n further lines
RECURSIVE Tails(_)
Tails(n) ==
    IF n = 0 THEN {<<>>}
    ELSE LET t == Tails(n - 1) IN t \cup {x \o l : x \in t, l \in ExtraLines}

\* plugin files for the extraction: four lines in chosen forms and up to
\* MaxExtra further lines
ExtractTexts ==
    {BaseLines(c, 1) \o t : c \in [FieldSet -> BaseForms], t \in Tails(MaxExtra)}

NoFile == [exists |-> FALSE, text |-> <<>>]
StaleFile == [exists |-> TRUE, text |-> <<"stale">>]

\* ------------------------------------------------------------ state
VARIABLES
    dir_exists,     \* whether PLUGIN_DIR exists
    dir_entries,    \* the entries of PLUGIN_DIR, in the order os.listdir gives
    out_file,       \* OUTPUT_FILE on disk: [exists, text]
    pc,             \* the statement the process is at
    idx,            \* how many entries the for loop has taken
    content,        \* content
    plugins_data,   \* plugins_data
    handles,        \* the paths of the files the process holds open
    opened,         \* the paths the process has opened, in order
    stdout,         \* the lines printed
    error,          \* the exception that ended the process, "" if none
    raised_at,      \* the line of the statement that raised, 0 if none
    run,            \* which invocation on this directory this is
    prior_out,      \* OUTPUT_FILE as it was when this invocation started
    widget,         \* the CurrencyConverter PluginWidget: its fields
    offline_file,   \* money_rates.json on disk: [kind, rates, date]
    last            \* what the last call of a handler of the widget did

vars ==
    <<dir_exists, dir_entries, out_file, pc, idx, content, plugins_data,
      handles, opened, stdout, error, raised_at, run, prior_out,
      widget, offline_file, last>>

\* the currency converter, which the generator does not touch
converter == <<widget, offline_file, last>>

EmptyRates == [c \in {} |-> 0]

\* the widget before __init__ has run
NoWidget ==
    [constructed |-> FALSE, rates |-> EmptyRates, currencies |-> <<>>,
     online_mode |-> TRUE, from_current |-> "", to_current |-> "",
     message |-> ""]

AbsentFile == [kind |-> "absent", rates |-> EmptyRates, date |-> 0]

NoCall ==
    [call |-> "", calls |-> 0, requests |-> 0, response |-> "",
     fallback |-> FALSE, saved |-> FALSE, raised |-> "", mode_before |-> TRUE]

\* no converter in the process
InitNoConverter ==
    /\ widget = NoWidget
    /\ offline_file = AbsentFile
    /\ last = NoCall

files == <<dir_exists, dir_entries>>

\* filename
Filename == dir_entries[idx].name

OutputPath == <<OUTPUT_FILE>>

\* the file system before the first invocation
InitFiles ==
    /\ dir_exists \in BOOLEAN
    /\ dir_entries \in (IF dir_exists THEN Listings ELSE {<<>>})
    /\ out_file \in {NoFile, StaleFile}
    /\ prior_out = out_file
    /\ run = 1

\* a fresh process: plugins_data = []
InitProcess ==
    /\ idx = 0
    /\ content = <<>>
    /\ plugins_data = <<>>
    /\ handles = {}
    /\ opened = <<>>
    /\ stdout = <<>>
    /\ error = ""
    /\ raised_at = 0

Init == InitFiles /\ InitProcess /\ InitNoConverter /\ pc = "listdir"

\* an exception nothing catches: the process ends with a traceback
Raise(exc, line) ==
    /\ pc' = "raised"
    /\ error' = exc
    /\ raised_at' = line

NoRaise == UNCHANGED <<error, raised_at>>

\* ---------------------------------------------------------- actions
\* os.listdir(PLUGIN_DIR)
ListDir ==
    /\ pc = "listdir"
    /\ dir_exists
    /\ pc' = "for"
    /\ NoRaise
    /\ UNCHANGED <<converter, files, out_file, idx, content, plugins_data, handles,
                   opened, stdout, run, prior_out>>

ListDirFails ==
    /\ pc = "listdir"
    /\ ~dir_exists
    /\ Raise("FileNotFoundError", 12)
    /\ UNCHANGED <<converter, files, out_file, idx, content, plugins_data, handles,
                   opened, stdout, run, prior_out>>

\* for filename in ...: if filename.endswith(".py")
ForNext ==
    /\ pc = "for"
    /\ idx < Len(dir_entries)
    /\ idx' = idx + 1
    /\ pc' = IF IsCandidate(dir_entries[idx + 1].name) THEN "open" ELSE "for"
    /\ NoRaise
    /\ UNCHANGED <<converter, files, out_file, content, plugins_data, handles, opened,
                   stdout, run, prior_out>>

\* the loop is exhausted
ForEnd ==
    /\ pc = "for"
    /\ idx = Len(dir_entries)
    /\ pc' = "open_out"
    /\ NoRaise
    /\ UNCHANGED <<converter, files, out_file, idx, content, plugins_data, handles,
                   opened, stdout, run, prior_out>>

\* with open(plugin_path, "r", encoding="utf-8") as f
OpenPlugin ==
    /\ pc = "open"
    /\ handles' = handles \cup {PluginPath(Filename)}
    /\ opened' = Append(opened, PluginPath(Filename))
    /\ pc' = "read"
    /\ NoRaise
    /\ UNCHANGED <<converter, files, out_file, idx, content, plugins_data, stdout, run,
                   prior_out>>

OpenPluginFails ==
    /\ pc = "open"
    /\ Raise("OSError", 15)
    /\ UNCHANGED <<converter, files, out_file, idx, content, plugins_data, handles,
                   opened, stdout, run, prior_out>>

\* content = f.read(), and the with block closes f
\* (the file read through a handle that is never closed)
ReadPluginLeavesOpen ==
    /\ pc = "read"
    /\ content' = dir_entries[idx].text
    /\ pc' = "match"
    /\ NoRaise
    /\ UNCHANGED <<converter, files, out_file, idx, plugins_data, handles, opened, stdout,
                   run, prior_out>>

ReadPlugin ==
    /\ pc = "read"
    /\ content' = dir_entries[idx].text
    /\ handles' = handles \ {PluginPath(Filename)}
    /\ pc' = "match"
    /\ NoRaise
    /\ UNCHANGED <<converter, files, out_file, idx, plugins_data, opened, stdout, run,
                   prior_out>>

\* (a failed read that is caught and the file skipped)
ReadPluginFailsCaught ==
    /\ pc = "read"
    /\ handles' = handles \ {PluginPath(Filename)}
    /\ pc' = "for"
    /\ NoRaise
    /\ UNCHANGED <<converter, files, out_file, idx, content, plugins_data, opened,
                   stdout, run, prior_out>>

\* (a failed read answered by opening the same file again)
ReadPluginFailsRetried ==
    /\ pc = "read"
    /\ handles' = handles \ {PluginPath(Filename)}
    /\ pc' = "open"
    /\ NoRaise
    /\ UNCHANGED <<converter, files, out_file, idx, content, plugins_data, opened,
                   stdout, run, prior_out>>

ReadPluginFails ==
    /\ pc = "read"
    /\ handles' = handles \ {PluginPath(Filename)}
    /\ \E exc \in {"UnicodeDecodeError", "OSError"} : Raise(exc, 16)
    /\ UNCHANGED <<converter, files, out_file, idx, content, plugins_data, opened,
                   stdout, run, prior_out>>

\* whether the record literal raises KeyError: the guard passed and a
\* subscript meta_matches[k] names a key that is not there
RecordRaises(text) ==
    LET meta == MetaMatches(text)
    IN  Qualifies(meta) /\ ~(FieldSet \subseteq DOMAIN meta)

\* meta_matches = ...; if all(...): plugins_data.append({...})
MatchMetadata ==
    /\ pc = "match"
    /\ plugins_data' = IF RecordRaises(content) THEN plugins_data
                       ELSE ScanFile(plugins_data, Filename, content)
    /\ pc' = IF RecordRaises(content) THEN "raised" ELSE "for"
    /\ error' = IF RecordRaises(content) THEN "KeyError" ELSE error
    /\ raised_at' = IF RecordRaises(content) THEN 26 ELSE raised_at
    /\ UNCHANGED <<converter, files, out_file, idx, content, handles, opened, stdout,
                   run, prior_out>>

\* open(..., "w"): the file is created or truncated
OpenForWriteAppend(f) == [exists |-> TRUE, text |-> f.text]
OpenForWrite(f) == [exists |-> TRUE, text |-> <<>>]

\* with open(OUTPUT_FILE, "w", encoding="utf-8") as f
OpenOutput ==
    /\ pc = "open_out"
    /\ out_file' = OpenForWrite(out_file)
    /\ handles' = handles \cup {OutputPath}
    /\ opened' = Append(opened, OutputPath)
    /\ pc' = "dump"
    /\ NoRaise
    /\ UNCHANGED <<converter, files, idx, content, plugins_data, stdout, run, prior_out>>

OpenOutputFails ==
    /\ pc = "open_out"
    /\ Raise("OSError", 35)
    /\ UNCHANGED <<converter, files, out_file, idx, content, plugins_data, handles,
                   opened, stdout, run, prior_out>>

\* json.dump(plugins_data, f, indent=2), and the with block closes f
DumpJson ==
    /\ pc = "dump"
    /\ out_file' = [exists |-> TRUE, text |-> out_file.text \o Dump(plugins_data)]
    /\ handles' = handles \ {OutputPath}
    /\ pc' = "print"
    /\ NoRaise
    /\ UNCHANGED <<converter, files, idx, content, plugins_data, opened, stdout, run,
                   prior_out>>

\* the write fails (a full disk): some whole records reached the file
DumpJsonFails ==
    /\ pc = "dump"
    /\ \E n \in 0..Len(plugins_data) :
          out_file' = [exists |-> TRUE,
                       text |-> out_file.text \o DumpPrefix(plugins_data, n)]
    /\ handles' = handles \ {OutputPath}
    /\ Raise("OSError", 36)
    /\ UNCHANGED <<converter, files, idx, content, plugins_data, opened, stdout, run,
                   prior_out>>

\* print(f"... Generated {OUTPUT_FILE} with {len(plugins_data)} plugins.")
PrintSummary ==
    /\ pc = "print"
    /\ stdout' = Append(stdout, SummaryLine(plugins_data))
    /\ pc' = "done"
    /\ NoRaise
    /\ UNCHANGED <<converter, files, out_file, idx, content, plugins_data, handles,
                   opened, run, prior_out>>

\* standard output cannot take the line (closed, or no encoding of its emoji)
PrintSummaryFails ==
    /\ pc = "print"
    /\ \E exc \in {"UnicodeEncodeError", "OSError"} : Raise(exc, 38)
    /\ UNCHANGED <<converter, files, out_file, idx, content, plugins_data, handles,
                   opened, stdout, run, prior_out>>

\* the generator is run again on the unchanged directory: a new process
RunAgain ==
    /\ pc = "done"
    /\ run < MaxRuns
    /\ run' = run + 1
    /\ prior_out' = out_file
    /\ pc' = "listdir"
    /\ idx' = 0
    /\ content' = <<>>
    /\ plugins_data' = <<>>
    /\ handles' = {}
    /\ opened' = <<>>
    /\ stdout' = <<>>
    /\ NoRaise
    /\ UNCHANGED <<converter, files, out_file>>

Next ==
    \/ ListDir
    \/ ListDirFails
    \/ ForNext
    \/ ForEnd
    \/ OpenPlugin
    \/ OpenPluginFails
    \/ ReadPlugin
    \/ ReadPluginFails
    \/ MatchMetadata
    \/ OpenOutput
    \/ OpenOutputFails
    \/ DumpJson
    \/ DumpJsonFails
    \/ PrintSummary
    \/ PrintSummaryFails
    \/ RunAgain

\* the statements of the module, executed in order
Spec == Init /\ [][Next]_vars

\* the steps other than MatchMetadata
OtherSteps ==
    \/ ListDir \/ ListDirFails \/ ForNext \/ ForEnd
    \/ OpenPlugin \/ OpenPluginFails \/ ReadPlugin \/ ReadPluginFails
    \/ OpenOutput \/ OpenOutputFails \/ DumpJson \/ DumpJsonFails
    \/ PrintSummary \/ PrintSummaryFails \/ RunAgain

\* the interpreter keeps executing: a statement that can run does run.
\* MatchMetadata can run exactly when pc = "match" and always leaves it, so
\* weak fairness of that step is that pc is not "match" for ever.
Fairness == WF_vars(OtherSteps) /\ []<>(pc # "match")

SpecFair == Spec /\ Fairness

\* ------------------------------------------- one plugin file, no failure
\* A directory that holds one plugin file, a.py
InitExtract ==
    /\ dir_exists = TRUE
    /\ \E t \in ExtractTexts :
          dir_entries = <<[name |-> <<"a", ".", "p", "y">>, text |-> t]>>
    /\ out_file = NoFile
    /\ prior_out = out_file
    /\ run = 1
    /\ InitProcess
    /\ InitNoConverter
    /\ pc = "listdir"

\* the run in which no I/O fails
NextExtract ==
    \/ ListDir
    \/ ForNext
    \/ OpenPlugin
    \/ ReadPlugin
    \/ MatchMetadata
    \/ ForEnd
    \/ OpenOutput
    \/ DumpJson
    \/ PrintSummary

SpecExtract == InitExtract /\ [][NextExtract]_vars

\* ------------------------------------------ CurrencyConverter.py
\* currency codes, in the order sorted() puts them
CodeOrder == <<"EUR", "GBP", "USD">>

\* sorted(self.rates.keys())
SortedKeys(rates) == SelectSeq(CodeOrder, LAMBDA c : c \in DOMAIN rates)

\* not self.rates
Falsy(rates) == DOMAIN rates = {}

CorruptFile == [kind |-> "corrupt", rates |-> EmptyRates, date |-> 0]

\* money_rates.json as a widget may find it: not there, not JSON, or saved by
\* an earlier session
StoredFiles ==
    {AbsentFile, CorruptFile,
     [kind |-> "valid", rates |-> ("EUR" :> 2) @@ ("USD" :> 1), date |-> 0]}

\* what requests.get and resp.json() can give: no response, a body that is
\* not JSON, a result other than "success", "success" without rates, and
\* "success" with a rates object
ResponseTables ==
    {("EUR" :> 2) @@ ("USD" :> 1),
     ("EUR" :> 3) @@ ("GBP" :> 2) @@ ("USD" :> 1),
     ("GBP" :> 2)}

Responses ==
    [kind : {"request_error", "undecodable", "not_success", "no_rates"},
     rates : {EmptyRates}]
        \cup [kind : {"success"}, rates : ResponseTables]

\* the exception the try block of fetch_rates_online raises on a response
FetchException(resp) ==
    CASE resp.kind = "request_error" -> "RequestException"
      [] resp.kind = "undecodable" -> "JSONDecodeError"
      [] resp.kind = "not_success" -> "ValueError"
      [] resp.kind = "no_rates" -> "KeyError"
      [] OTHER -> ""

\* except Exception
CaughtByFetch ==
    {"RequestException", "JSONDecodeError", "ValueError", "KeyError"}

SaveOutcomes == {"saved", "open_fails", "write_fails"}

\* show_message(text)
ShowMessage(w, text) == [w EXCEPT !.message = text]

\* update_currency_lists(select_base): both boxes are refilled with signals
\* blocked; "" stands for select_base = None
UpdateCurrencyLists(w, select_base) ==
    LET first == IF w.currencies = <<>> THEN "" ELSE w.currencies[1]
        Has(c) == \E k \in 1..Len(w.currencies) : w.currencies[k] = c
    IN  IF select_base # "" /\ Has(select_base)
        THEN [w EXCEPT !.from_current = select_base, !.to_current = first]
        ELSE [w EXCEPT !.from_current = IF Has("USD") THEN "USD" ELSE first,
                       !.to_current = IF Has("EUR") THEN "EUR" ELSE first]

\* load_rates_offline()
LoadRatesOffline(w, file) ==
    IF file.kind = "absent" THEN w
    ELSE IF file.kind = "corrupt" THEN ShowMessage(w, "load_failed")
    ELSE ShowMessage(
             UpdateCurrencyLists(
                 [w EXCEPT !.rates = file.rates,
                           !.currencies = SortedKeys(file.rates)], ""),
             "loaded")

\* save_rates(): the file after it, written at time now
SaveRates(w, file, outcome, now) ==
    CASE outcome = "saved" -> [kind |-> "valid", rates |-> w.rates, date |-> now]
      [] outcome = "open_fails" -> file
      [] OTHER -> CorruptFile

\* what a call of a handler did
Outcome(w, file, requests, response, fallback, saved, raised) ==
    [w |-> w, file |-> file, requests |-> requests, response |-> response,
     fallback |-> fallback, saved |-> saved, raised |-> raised]

\* (a fetch that falls back to the offline file after every failure)
FetchRatesOnlineFallbackAlways(w, file, resp, save, now) ==
    LET base == IF w.currencies # <<>> THEN w.from_current ELSE "USD"
        exc == FetchException(resp)
    IN  IF exc = ""
        THEN LET rates == (base :> 1) @@ resp.rates
                 u == UpdateCurrencyLists(
                          [w EXCEPT !.rates = rates,
                                    !.currencies = SortedKeys(rates)], base)
             IN  Outcome(ShowMessage(u, "updated"), SaveRates(u, file, save, now),
                         1, resp.kind, FALSE, TRUE, "")
        ELSE IF exc \in CaughtByFetch
        THEN Outcome(LoadRatesOffline(ShowMessage(w, "fetch_failed"), file),
                     file, 1, resp.kind, TRUE, FALSE, "")
        ELSE Outcome(w, file, 1, resp.kind, FALSE, FALSE, exc)

\* fetch_rates_online()
FetchRatesOnline(w, file, resp, save, now) ==
    LET base == IF w.currencies # <<>> THEN w.from_current ELSE "USD"
        exc == FetchException(resp)
    IN  IF exc = ""
        THEN LET rates == (base :> 1) @@ resp.rates
                 u == UpdateCurrencyLists(
                          [w EXCEPT !.rates = rates,
                                    !.currencies = SortedKeys(rates)], base)
             IN  Outcome(ShowMessage(u, "updated"), SaveRates(u, file, save, now),
                         1, resp.kind, FALSE, TRUE, "")
        ELSE IF exc \in CaughtByFetch
        THEN LET e == ShowMessage(w, "fetch_failed")
             IN  IF Falsy(w.rates)
                 THEN Outcome(LoadRatesOffline(e, file), file, 1, resp.kind,
                              TRUE, FALSE, "")
                 ELSE Outcome(e, file, 1, resp.kind, FALSE, FALSE, "")
        ELSE Outcome(w, file, 1, resp.kind, FALSE, FALSE, exc)

\* toggle_mode()
ToggleMode(w, file, resp, save, now) ==
    LET t == [w EXCEPT !.online_mode = ~w.online_mode]
    IN  IF t.online_mode
        THEN FetchRatesOnline(ShowMessage(t, "online"), file, resp, save, now)
        ELSE Outcome(LoadRatesOffline(ShowMessage(t, "offline"), file), file,
                     0, "", FALSE, FALSE, "")

\* (a handler that fetches in either mode)
OnBaseCurrencyChangeAlways(w, file, resp, save, now) ==
    FetchRatesOnline(w, file, resp, save, now)

\* on_base_currency_change()
OnBaseCurrencyChange(w, file, resp, save, now) ==
    IF w.online_mode
    THEN FetchRatesOnline(w, file, resp, save, now)
    ELSE Outcome(w, file, 0, "", FALSE, FALSE, "")

\* __init__(): the fields, load_rates_offline(), and a fetch if that left no
\* rates
Construct(file, resp, save, now) ==
    LET w == LoadRatesOffline([NoWidget EXCEPT !.constructed = TRUE], file)
    IN  IF Falsy(w.rates)
        THEN FetchRatesOnline(w, file, resp, save, now)
        ELSE Outcome(w, file, 0, "", FALSE, FALSE, "")

\* the state after a call of handler call with outcome r
Called(call, r) ==
    /\ widget' = r.w
    /\ offline_file' = r.file
    /\ last' = [call |-> call, calls |-> last.calls + 1,
                requests |-> r.requests, response |-> r.response,
                fallback |-> r.fallback, saved |-> r.saved,
                raised |-> r.raised, mode_before |-> widget.online_mode]

\* the generator's variables
generator ==
    <<dir_exists, dir_entries, out_file, pc, idx, content, plugins_data,
      handles, opened, stdout, error, raised_at, run, prior_out>>

\* the plugin about to be loaded; the generator is not running
InitConverter ==
    /\ widget = NoWidget
    /\ offline_file \in StoredFiles
    /\ last = NoCall
    /\ dir_exists = FALSE
    /\ dir_entries = <<>>
    /\ out_file = NoFile
    /\ prior_out = out_file
    /\ run = 1
    /\ InitProcess
    /\ pc = "launch"

\* PluginWidget()
NewWidget ==
    /\ ~widget.constructed
    /\ last.raised = ""
    /\ \E resp \in Responses, save \in SaveOutcomes :
          Called("init", Construct(offline_file, resp, save, last.calls + 1))
    /\ UNCHANGED generator

\* a click on "Refresh Rates"
ClickRefresh ==
    /\ widget.constructed
    /\ last.calls < MaxCalls
    /\ \E resp \in Responses, save \in SaveOutcomes :
          Called("refresh",
                 FetchRatesOnline(widget, offline_file, resp, save, last.calls + 1))
    /\ UNCHANGED generator

\* a click on "Switch to Offline"
ClickMode ==
    /\ widget.constructed
    /\ last.calls < MaxCalls
    /\ \E resp \in Responses, save \in SaveOutcomes :
          Called("toggle",
                 ToggleMode(widget, offline_file, resp, save, last.calls + 1))
    /\ UNCHANGED generator

\* the user picks another entry of the from_currency box
PickBase ==
    /\ widget.constructed
    /\ last.calls < MaxCalls
    /\ \E k \in 1..Len(widget.currencies) :
          /\ widget.currencies[k] # widget.from_current
          /\ \E resp \in Responses, save \in SaveOutcomes :
                Called("change",
                       OnBaseCurrencyChange(
                           [widget EXCEPT !.from_current = widget.currencies[k]],
                           offline_file, resp, save, last.calls + 1))
    /\ UNCHANGED generator

NextConverter ==
    \/ NewWidget
    \/ ClickRefresh
    \/ ClickMode
    \/ PickBase

SpecConverter == InitConverter /\ [][NextConverter]_vars

\* ------------------------------------------- the script as stored
\* The top-level units of generate_plugins_json.py in order; the last one is
\* line 40, the words "Add plugin auto-update script".
ModuleUnits ==
    <<"import", "assign", "assign", "assign", "assign", "assign", "for",
      "with", "print", "words">>

\* what the compiler accepts as a statement
IsStatement(unit) == unit # "words"

\* compile() of the whole file, which comes before any statement runs
Compiles == \A i \in 1..Len(ModuleUnits) : IsStatement(ModuleUnits[i])

InitScript == InitFiles /\ InitProcess /\ InitNoConverter /\ pc = "launch"

\* python generate_plugins_json.py: the interpreter compiles the file, and
\* runs its statements only if that succeeds
RunScript ==
    /\ pc = "launch"
    /\ IF Compiles
       THEN pc' = "listdir" /\ NoRaise
       ELSE Raise("SyntaxError", 40)
    /\ UNCHANGED <<converter, files, out_file, idx, content, plugins_data, handles,
                   opened, stdout, run, prior_out>>

\* No statement of the file runs, so the launch is the only step there is.
NextScript == RunScript

SpecScript == InitScript /\ [][NextScript]_vars

\* ================================================================ claims
Terminated == pc \in {"done", "raised"}

\* the lines of the statements that do I/O
ScanLines == {12, 15, 16}
IOLines == {12, 15, 16, 35, 36, 38}

Range(seq) == {seq[i] : i \in 1..Len(seq)}

RemoveAt(seq, i) == SubSeq(seq, 1, i - 1) \o SubSeq(seq, i + 1, Len(seq))

\* the manifest as a reader of plugins.json gets it
Manifest == ParseJson(out_file.text)

\* the records of a manifest that point at the file of that name
RecordsFor(data, name) ==
    {k \in 1..Len(data) : data[k].download_url = <<RepoBase, PLUGIN_DIR, "/">> \o name}

\* Python's reading of a plugin file: the quote q that closes a string literal
\* opened before position m, 0 if the line ends first
RECURSIVE LiteralClose(_, _, _)
LiteralClose(s, m, q) ==
    IF m > Len(s) THEN 0
    ELSE IF s[m] = q THEN m
    ELSE IF s[m] = NL THEN 0
    ELSE LiteralClose(s, m + 1, q)

\* the values the file assigns to __plugin_<f>__ with a one-line string literal
AssignedValues(s, f) ==
    {v \in {SubSeq(s, a, b) : a \in 1..Len(s), b \in 1..Len(s)} :
        \E i \in 1..Len(s) :
            LET j == SkipSpace(s, i + 1)
                k == SkipSpace(s, j + 1)
                m == IF k <= Len(s) /\ IsQuote(s[k]) THEN LiteralClose(s, k + 1, s[k]) ELSE 0
            IN  /\ s[i] = KeyOf(f)
                /\ j <= Len(s) /\ s[j] = EQ
                /\ m > k + 1
                /\ v = SubSeq(s, k + 1, m - 1)}

AssignsAllFour(s) == \A f \in FieldSet : AssignedValues(s, f) # {}

\* the pattern matches field f somewhere in the text
PatternFinds(s, f) ==
    LET found == FindAll(s) IN \E i \in 1..Len(found) : found[i].field = f

\* C1: when a run has written the manifest, every ".py" file that assigns all
\* four fields has exactly one record in it, whose four fields are the values
\* the file assigns and whose URLs are the repository base followed by
\* plugins/<filename> and by icons/<icon file>.
C1_AssignedValuesRecorded ==
    pc = "done" =>
        \A i \in 1..Len(dir_entries) :
            LET e == dir_entries[i]
                recs == RecordsFor(Manifest, e.name)
            IN  (IsCandidate(e.name) /\ AssignsAllFour(e.text)) =>
                    /\ Cardinality(recs) = 1
                    /\ \A k \in recs :
                          /\ \A f \in FieldSet : Manifest[k][f] \in AssignedValues(e.text, f)
                          /\ SubSeq(Manifest[k].icon_url, 1, 3) = <<RepoBase, ICON_DIR, "/">>

\* C2: a file in which the pattern finds no value for one of the four fields
\* has no record in the manifest and raises no error, and the manifest is what
\* the scan of the directory without that file gives.
C2_FileMissingAFieldIsSkipped ==
    /\ error # "KeyError"
    /\ pc = "done" =>
          \A i \in 1..Len(dir_entries) :
              (\E f \in FieldSet : ~PatternFinds(dir_entries[i].text, f)) =>
                  /\ RecordsFor(Manifest, dir_entries[i].name) = {}
                  /\ Manifest = ScanAll(RemoveAt(dir_entries, i), Len(dir_entries) - 1)

C2_Witness ==
    /\ pc = "done"
    /\ Len(plugins_data) = 1
    /\ \E i \in 1..Len(dir_entries) :
          /\ IsCandidate(dir_entries[i].name)
          /\ \E f \in FieldSet : ~PatternFinds(dir_entries[i].text, f)

\* the file name with its last three characters, ".py", replaced by ".png"
ExtensionReplaced(name) == SubSeq(name, 1, Len(name) - Len(PyExt)) \o PngExt

\* C3: the icon file of a record is its source file's name with only the final
\* ".py" replaced by ".png".
C3_OnlyTheExtensionIsReplaced ==
    \A i \in 1..Len(dir_entries) :
        \A k \in RecordsFor(plugins_data, dir_entries[i].name) :
            plugins_data[k].icon_url =
                <<RepoBase, ICON_DIR, "/">> \o ExtensionReplaced(dir_entries[i].name)

\* C4: a failure of os.listdir, of open or of read ends the run with the
\* exception, and the output file is then neither opened nor changed.
C4_ReadFailureStopsTheRun ==
    /\ [](pc = "raised" /\ raised_at \in ScanLines =>
            /\ out_file = prior_out
            /\ OutputPath \notin Range(opened)
            /\ stdout = <<>>
            /\ ~ENABLED Next)
    /\ [][/\ pc = "listdir" => (pc' = "for" /\ dir_exists) \/ pc' = "raised"
          /\ pc = "open" =>
                (pc' = "read" /\ PluginPath(Filename) \in handles') \/ pc' = "raised"
          /\ pc = "read" =>
                (pc' = "match" /\ content' = dir_entries[idx].text) \/ pc' = "raised"]_vars

C4_Witness ==
    /\ pc = "raised"
    /\ raised_at \in {15, 16}
    /\ plugins_data # <<>>
    /\ prior_out.exists

\* C5: running the script ends either with the complete manifest written and
\* one summary line printed after it, or with an I/O failure and no summary
\* line.
C5_ScriptGeneratesOrFailsOnIO ==
    /\ pc = "raised" => raised_at \in IOLines /\ stdout = <<>>
    /\ pc = "done" =>
          /\ out_file = [exists |-> TRUE, text |-> Dump(plugins_data)]
          /\ Len(stdout) = 1
    /\ stdout # <<>> => pc = "done"

\* C6: the count of the summary line is the number of records a reader parses
\* out of the file.
C6_CountIsManifestLength ==
    pc = "done" =>
        /\ Len(stdout) = 1
        /\ stdout[1].count = Len(Manifest)

C6_Witness ==
    /\ pc = "done"
    /\ stdout[1].count = 2

\* no enumerated ".py" file has a value found for all four fields
NoQualifyingFile ==
    \A i \in 1..Len(dir_entries) :
        IsCandidate(dir_entries[i].name) =>
            \E f \in FieldSet : ~PatternFinds(dir_entries[i].text, f)

\* a step that raises nothing is possible
CanProceed ==
    \/ ENABLED ListDir
    \/ ENABLED ForNext
    \/ ENABLED ForEnd
    \/ ENABLED OpenPlugin
    \/ ENABLED ReadPlugin
    \/ pc = "match" /\ ~RecordRaises(content)
    \/ ENABLED OpenOutput
    \/ ENABLED DumpJson
    \/ ENABLED PrintSummary

\* C7: with no qualifying file in an existing directory a run fails only on
\* I/O and is never stuck, and when it is done the file holds the empty array
\* and the count is 0.
C7_NoQualifyingFileGivesEmptyArray ==
    /\ (pc = "raised" /\ raised_at \notin IOLines) => ~(dir_exists /\ NoQualifyingFile)
    /\ (~Terminated /\ ~CanProceed) => ~(dir_exists /\ NoQualifyingFile)
    /\ (pc = "done" /\ NoQualifyingFile) =>
          /\ out_file = [exists |-> TRUE, text |-> <<"[", "]">>]
          /\ Manifest = <<>>
          /\ stdout = <<[file |-> OUTPUT_FILE, count |-> 0]>>

C7_Witness ==
    /\ pc = "done"
    /\ NoQualifyingFile
    /\ Len(dir_entries) = 2
    /\ \E i \in 1..Len(dir_entries) : IsCandidate(dir_entries[i].name)
    /\ \E i \in 1..Len(dir_entries) : ~IsCandidate(dir_entries[i].name)

\* the place in the enumeration of the file a record points at
SourceIndex(rec) ==
    CHOOSE i \in 1..Len(dir_entries) :
        rec.download_url = <<RepoBase, PLUGIN_DIR, "/">> \o dir_entries[i].name

\* C8: records stand in the order their files were enumerated, and within a
\* run plugins_data only ever grows at its end.
C8_RecordsInEnumerationOrder ==
    /\ [](\A k1, k2 \in 1..Len(plugins_data) :
             k1 < k2 <=> SourceIndex(plugins_data[k1]) < SourceIndex(plugins_data[k2]))
    /\ [](pc = "done" => Manifest = plugins_data)
    /\ [][run' = run =>
            \/ plugins_data' = plugins_data
            \/ /\ Len(plugins_data') = Len(plugins_data) + 1
               /\ SubSeq(plugins_data', 1, Len(plugins_data)) = plugins_data]_vars

C8_Witness ==
    /\ pc = "done"
    /\ Len(plugins_data) = 2

\* C9: the file a successful run leaves is the dump of the scan of the
\* directory, whatever the file held before, and a second run leaves it as
\* the first did.
C9_ManifestDependsOnDirectoryOnly ==
    pc = "done" =>
        /\ out_file = [exists |-> TRUE,
                       text |-> Dump(ScanAll(dir_entries, Len(dir_entries)))]
        /\ run > 1 => out_file = prior_out

C9_Witness ==
    /\ pc = "done"
    /\ run = 2
    /\ plugins_data # <<>>

\* C10: an entry whose name does not end in ".py" is never opened and has no
\* record.
C10_OnlyPyFilesAreRead ==
    /\ pc \in {"open", "read", "match"} => EndsWith(Filename, PyExt)
    /\ \A i \in 1..Len(dir_entries) :
          ~EndsWith(dir_entries[i].name, PyExt) =>
              /\ PluginPath(dir_entries[i].name) \notin Range(opened)
              /\ PluginPath(dir_entries[i].name) \notin handles
              /\ RecordsFor(plugins_data, dir_entries[i].name) = {}

C10_Witness ==
    /\ pc = "done"
    /\ \E i \in 1..Len(dir_entries) :
          /\ ~EndsWith(dir_entries[i].name, PyExt)
          /\ AssignsAllFour(dir_entries[i].text)
    /\ Len(plugins_data) = 1

\* how many times a path stands in the sequence of opened paths
TimesOpened(path) == Cardinality({k \in 1..Len(opened) : opened[k] = path})

\* C11: at most one file is open at any time: no file is open when a source
\* file or the output file is about to be opened, the output file is opened
\* at most once in a run and exactly once in a run that completes, and once
\* it has been opened every entry has been taken and no source file is opened
\* after it.
C11_OneHandleAtATime ==
    /\ Cardinality(handles) <= 1
    /\ pc \in {"listdir", "for", "open", "match", "open_out", "print", "done"} =>
          handles = {}
    /\ pc = "read" => handles = {PluginPath(Filename)}
    /\ pc = "dump" => handles = {OutputPath}
    /\ TimesOpened(OutputPath) <= 1
    /\ pc \in {"dump", "print", "done"} => TimesOpened(OutputPath) = 1
    /\ TimesOpened(OutputPath) = 1 =>
          /\ opened[Len(opened)] = OutputPath
          /\ idx = Len(dir_entries)

C11_Witness ==
    /\ pc = "dump"
    /\ handles = {OutputPath}
    /\ Len(opened) = 3

\* an upper bound on the steps left in the run: four per entry not yet taken,
\* the rest of the current iteration, and the three statements after the loop
StepsLeft ==
    LET rest == 4 * (Len(dir_entries) - idx)
    IN  CASE pc = "listdir"  -> 4 * Len(dir_entries) + 5
          [] pc = "for"      -> rest + 4
          [] pc = "open"     -> rest + 7
          [] pc = "read"     -> rest + 6
          [] pc = "match"    -> rest + 5
          [] pc = "open_out" -> 3
          [] pc = "dump"     -> 2
          [] pc = "print"    -> 1
          [] OTHER           -> 0

\* C12: every run started ends, done or raised; every step of a run brings
\* the end nearer; the index moves one entry at a time and has passed every
\* entry when the loop is left; no path is opened twice in a run; nothing
\* happens in a run after it has raised.
C12_SinglePassTerminates ==
    /\ (pc = "listdir") ~> Terminated
    /\ [][run' = run => StepsLeft' < StepsLeft]_vars
    /\ [][run' = run => idx' \in {idx, idx + 1}]_vars
    /\ [][pc # "raised"]_vars
    /\ [](pc \in {"open_out", "dump", "print", "done"} => idx = Len(dir_entries))
    /\ [](\A k \in 1..Len(opened) : TimesOpened(opened[k]) = 1)

C12_Witness ==
    /\ pc = "done"
    /\ run = MaxRuns
    /\ Len(dir_entries) = MaxFiles
    /\ Len(opened) = MaxFiles + 1

\* ---- the extraction, read off the text of the file
\* the quotes that can close a value opened by the quote at position o: a
\* quote of either kind later on the line, with at least one character between
Closes(s, o) ==
    {e \in (o + 2)..Len(s) :
        /\ IsQuote(s[e])
        /\ \A j \in (o + 1)..(e - 1) : s[j] # NL}

\* the positions at which the text holds __plugin_<f>__ = <quote>...<quote>,
\* whatever stands before them on the line
Occurrences(s, f) ==
    {i \in 1..Len(s) :
        /\ s[i] = KeyOf(f)
        /\ i + 4 <= Len(s)
        /\ s[i + 1] = SP /\ s[i + 2] = EQ /\ s[i + 3] = SP
        /\ IsQuote(s[i + 4])
        /\ Closes(s, i + 4) # {}}

Least(S) == CHOOSE x \in S : \A y \in S : x <= y
Greatest(S) == CHOOSE x \in S : \A y \in S : y <= x

\* the characters from the opening quote of the occurrence at i to the first
\* quote that can close it
RunAt(s, i) == SubSeq(s, i + 5, Least(Closes(s, i + 4)) - 1)

\* the position at which the line of position i starts
LineStart(s, i) == Greatest({j \in 1..i : j = 1 \/ s[j - 1] = NL})

InComment(s, i) == \E j \in LineStart(s, i)..(i - 1) : s[j] = "#"
InString(s, i) == \E j \in LineStart(s, i)..(i - 1) : IsQuote(s[j])

\* the one file has been matched
Matched == pc = "for" /\ idx = 1

\* C13: a file in which every field has an occurrence of its pattern, at the
\* start of a line or not, yields a record, and each field of the record is
\* the run of one of the occurrences of that field.
C13_PatternFoundAnywhere ==
    (Matched /\ \A f \in FieldSet : Occurrences(content, f) # {}) =>
        /\ Len(plugins_data) = 1
        /\ \A f \in FieldSet :
              \E i \in Occurrences(content, f) :
                  plugins_data[1][f] = RunAt(content, i)

\* a record from a file whose patterns all stand in comments or string
\* literals, some in each
C13_Witness ==
    /\ Matched
    /\ Len(plugins_data) = 1
    /\ \A f \in FieldSet : \A i \in Occurrences(content, f) :
          InComment(content, i) \/ InString(content, i)
    /\ \E f \in FieldSet : \E i \in Occurrences(content, f) : InComment(content, i)
    /\ \E f \in FieldSet : \E i \in Occurrences(content, f) : InString(content, i)

\* C14: a file yields at most one record, and each field of the record is the
\* run of the last occurrence of that field in the file.
C14_LastOccurrenceWins ==
    /\ Len(plugins_data) <= 1
    /\ (Matched /\ Len(plugins_data) = 1) =>
          \A f \in FieldSet :
              plugins_data[1][f] = RunAt(content, Greatest(Occurrences(content, f)))

\* a record from a file in which a field occurs twice with different values
C14_Witness ==
    /\ Matched
    /\ Len(plugins_data) = 1
    /\ \E f \in FieldSet : \E i, j \in Occurrences(content, f) :
          i < j /\ RunAt(content, i) # RunAt(content, j)

\* C15: a recorded value is not empty, stands on one line right after an
\* opening quote, holds no quote after its first character and is followed by
\* a quote of either kind; when that quote is not the one that closes the
\* literal, the value is a proper prefix of the literal's value. A field whose
\* only assignments have no such run is not found.
C15_ValueEndsAtNextQuote ==
    Matched =>
        /\ (\E f \in FieldSet : Occurrences(content, f) = {}) => plugins_data = <<>>
        /\ Len(plugins_data) = 1 =>
              \A f \in FieldSet :
                  LET v == plugins_data[1][f]
                      n == Len(v)
                  IN  \E i \in Occurrences(content, f) :
                          LET o == i + 4
                              c == LiteralClose(content, o + 1, content[o])
                          IN  /\ n >= 1
                              /\ v = SubSeq(content, o + 1, o + n)
                              /\ \A j \in 1..n : v[j] # NL
                              /\ \A j \in 2..n : ~IsQuote(v[j])
                              /\ IsQuote(content[o + n + 1])
                              /\ c > o + n + 1 =>
                                    /\ v # SubSeq(content, o + 1, c - 1)
                                    /\ v = SubSeq(content, o + 1, o + n)
                                    /\ n < c - o - 1

\* a record whose name is M, from a file that assigns "M'C"
C15_Witness ==
    /\ Matched
    /\ Len(plugins_data) = 1
    /\ plugins_data[1]["name"] = <<"M">>
    /\ <<"M", SQ, "C">> \in AssignedValues(content, "name")
    /\ <<"M">> \notin AssignedValues(content, "name")

\* ---- the currency converter
\* the ways the claim names for a fetch to fail
FailedResponses == {"request_error", "undecodable", "not_success"}

\* C16: every toggle_mode call flips online_mode, and a second one in a row
\* gives back the mode before the first; a change of the base currency made
\* while online_mode is false sends no request and leaves the rates as they
\* were; a call that sent a request and left the widget in offline mode was a
\* click on refresh.
C16_ToggleFlipsOfflineChangeFetchesNothing ==
    /\ [][last'.call = "toggle" => widget'.online_mode = ~widget.online_mode]_vars
    /\ [][(last'.call = "toggle" /\ last.call = "toggle") =>
              widget'.online_mode = last.mode_before]_vars
    /\ [][(last'.call = "change" /\ ~widget.online_mode) =>
              /\ last'.requests = 0
              /\ widget'.rates = widget.rates]_vars
    /\ []((last.requests > 0 /\ ~widget.online_mode) => last.call = "refresh")

\* the base currency was changed in offline mode, with rates stored
C16_Witness ==
    /\ last.call = "change"
    /\ ~last.mode_before
    /\ ~widget.online_mode
    /\ ~Falsy(widget.rates)
    /\ widget.from_current # "USD"

\* C17: a call whose fetch failed in one of the named ways raises nothing and
\* leaves the offline file as it was; with rates stored it leaves the rates
\* and the currency list as they were and does not load the offline file;
\* with no rates stored it loads the offline file, and the rates and the list
\* are then those of a readable file or else unchanged. The offline file
\* changes only in a call whose fetch succeeded.
C17_FailedFetchKeepsRates ==
    /\ [][last'.response \in FailedResponses =>
              /\ last'.raised = ""
              /\ ~last'.saved
              /\ offline_file' = offline_file
              /\ last'.fallback = Falsy(widget.rates)
              /\ ~Falsy(widget.rates) =>
                    /\ widget'.rates = widget.rates
                    /\ widget'.currencies = widget.currencies
              /\ Falsy(widget.rates) =>
                    IF offline_file.kind = "valid"
                    THEN /\ widget'.rates = offline_file.rates
                         /\ widget'.currencies = SortedKeys(offline_file.rates)
                    ELSE /\ widget'.rates = widget.rates
                         /\ widget'.currencies = widget.currencies]_vars
    /\ [][offline_file' # offline_file => last'.response = "success"]_vars
    /\ [](last.saved => last.response = "success")

\* a refresh failed with rates stored, after an earlier fetch had succeeded
C17_Witness ==
    /\ last.call = "refresh"
    /\ last.response = "not_success"
    /\ ~last.fallback
    /\ ~Falsy(widget.rates)
    /\ offline_file.kind = "valid"
    /\ offline_file.date > 0

====
